---- MODULE Spec2Model ----
(***************************************************************************)
(* Model of the user-records API of src/main.py: the table "personas" of   *)
(* personas.db, the pydantic request models, the four store functions and  *)
(* the four FastAPI routes.                                                *)
(*                                                                         *)
(* Spec      the routes as atomic request handlers (every handler is an    *)
(*           "async def" that calls the blocking store function without    *)
(*           an await, so one server process runs them one at a time).     *)
(* SpecConc  nuevo_usuario taken apart into its statements, run by several *)
(*           clients, each on its own sqlite3 connection.                  *)
(***************************************************************************)
EXTENDS Integers, Sequences, FiniteSets, TLC

VARIABLES personas, req, resp, devueltos, intactos, conns, writer

vars == <<personas, req, resp, devueltos, intactos, conns, writer>>

(***************************************************************************)
(* Bounds of the model.                                                    *)
(***************************************************************************)
\* most rows the table holds: a create is not issued on a full table
MaxRows == 2
\* most creates the concurrent clients of SpecConc issue in all
MaxCreates == 3

(***************************************************************************)
(* Values.  A text value is a TLA+ string, except an e-mail address, which *)
(* is a sequence of characters so that EmailStr can look inside it.        *)
(* None is Python's None / JSON null / SQL NULL.                           *)
(***************************************************************************)
None == "<None>"

Usernames == {"ana"}
Nacimiento == "1990-01-01"
Numero == "555"
Profesiones == {"chef", "Chef"}
\* professions asked for in GET /users/{profesion}: one more than any row has
Lookups == Profesiones \cup {"pilot"}
Certificados == {"c1"}

a_x_co == <<"a", "@", "x", ".", "c", "o">>
a_X_CO == <<"a", "@", "X", ".", "C", "O">>
\* the address the demonstration script sends (src/peticiones.py line 24)
\* "p@p" stands for its "pedro@pedro": a domain without a dot
pedro_pedro == <<"p", "@", "p">>

GmailsValidos == {a_x_co, a_X_CO}

Fields == {"username", "nacimiento", "numero", "gmail", "profesion", "certificado_N"}

(***************************************************************************)
(* pydantic's EmailStr (the type of gmail in UserCreate, UserUpdate and    *)
(* UserInDB): the value must be local@domain with a dotted domain, and the *)
(* validated value has its domain part in lower case.                      *)
(***************************************************************************)
Lower(c) ==
  CASE c = "X" -> "x"
    [] c = "C" -> "c"
    [] c = "O" -> "o"
    [] OTHER -> c

AtPositions(s) == {i \in 1..Len(s) : s[i] = "@"}

AtIndex(s) == CHOOSE i \in AtPositions(s) : TRUE

DomainPart(s) == SubSeq(s, AtIndex(s) + 1, Len(s))

EmailStrValid(s) ==
  /\ Cardinality(AtPositions(s)) = 1
  /\ AtIndex(s) > 1
  /\ LET d == DomainPart(s)
     IN /\ Len(d) > 0
        /\ \E i \in 1..Len(d) : d[i] = "."
        /\ d[1] # "."
        /\ d[Len(d)] # "."
        /\ \A i \in 1..(Len(d) - 1) : ~(d[i] = "." /\ d[i + 1] = ".")

EmailStr(s) ==
  [i \in 1..Len(s) |-> IF i > AtIndex(s) THEN Lower(s[i]) ELSE s[i]]

(***************************************************************************)
(* The request models.  A JSON body is a record; a field the body lacks is *)
(* a field outside its DOMAIN; keys the model does not declare (the "id"   *)
(* the clients send) are ignored.                                          *)
(***************************************************************************)
StrField(body, f) == f \in DOMAIN body /\ body[f] # None

\* gmail declared str instead of EmailStr
UserCreateValidSinEmail(body) ==
  /\ \A f \in Fields \ {"gmail"} : StrField(body, f)
  /\ "gmail" \in DOMAIN body

\* class UserCreate: six required fields
UserCreateValid(body) ==
  /\ StrField(body, "username")
  /\ StrField(body, "nacimiento")
  /\ StrField(body, "numero")
  /\ "gmail" \in DOMAIN body /\ EmailStrValid(body.gmail)
  /\ StrField(body, "profesion")
  /\ StrField(body, "certificado_N")

UserCreate(body) ==
  [username |-> body.username, nacimiento |-> body.nacimiento,
   numero |-> body.numero, gmail |-> EmailStr(body.gmail),
   profesion |-> body.profesion, certificado_N |-> body.certificado_N]

\* class UserUpdate: certificado_N is Optional[str] = None
UserUpdateValid(body) ==
  /\ StrField(body, "username")
  /\ StrField(body, "nacimiento")
  /\ StrField(body, "numero")
  /\ "gmail" \in DOMAIN body /\ EmailStrValid(body.gmail)
  /\ StrField(body, "profesion")

UserUpdate(body) ==
  [username |-> body.username, nacimiento |-> body.nacimiento,
   numero |-> body.numero, gmail |-> EmailStr(body.gmail),
   profesion |-> body.profesion,
   certificado_N |-> IF "certificado_N" \in DOMAIN body
                     THEN body.certificado_N ELSE None]

\* class UserInDB(UserCreate): the six fields of UserCreate, validated again,
\* plus id.  Building one from values that do not validate raises
\* pydantic's ValidationError.
UserInDBValid(u) ==
  /\ u.username # None
  /\ u.nacimiento # None
  /\ u.numero # None
  /\ EmailStrValid(u.gmail)
  /\ u.profesion # None
  /\ u.certificado_N # None

UserInDB(id, u) ==
  [id |-> id, username |-> u.username, nacimiento |-> u.nacimiento,
   numero |-> u.numero, gmail |-> EmailStr(u.gmail),
   profesion |-> u.profesion, certificado_N |-> u.certificado_N]

(***************************************************************************)
(* The table personas: a sequence of rows in rowid order, which is the     *)
(* order "SELECT * FROM personas" scans it in.  id is the INTEGER PRIMARY  *)
(* KEY; the six other columns are text.                                    *)
(***************************************************************************)
Row(id, u) ==
  [id |-> id, username |-> u.username, nacimiento |-> u.nacimiento,
   numero |-> u.numero, gmail |-> u.gmail, profesion |-> u.profesion,
   certificado_N |-> u.certificado_N]

\* the columns of a row but id
Datos(r) ==
  [username |-> r.username, nacimiento |-> r.nacimiento, numero |-> r.numero,
   gmail |-> r.gmail, profesion |-> r.profesion,
   certificado_N |-> r.certificado_N]

IdsOf(t) == {t[i].id : i \in 1..Len(t)}

MaxId(t) ==
  IF Len(t) = 0 THEN 0 ELSE CHOOSE m \in IdsOf(t) : \A k \in IdsOf(t) : k <= m

\* the schema of personas is not in the source; per the specification the six
\* data columns are plain text columns, so certificado_N accepts NULL
CertificadoNullable == TRUE

\* INSERT without an id: sqlite assigns one more than the largest rowid
NextRowIdStuck(t) == IF Len(t) = 0 THEN 1 ELSE MaxId(t)

NextRowId(t) == MaxId(t) + 1

InsertRow(t, u) == Append(t, Row(NextRowId(t), u))

\* UPDATE personas SET ... WHERE id=?   and cursor.rowcount
RowCount(t, id) == Cardinality({i \in 1..Len(t) : t[i].id = id})

UpdateRowsAll(t, id, u) == [i \in 1..Len(t) |-> Row(t[i].id, u)]

UpdateRows(t, id, u) ==
  [i \in 1..Len(t) |-> IF t[i].id = id THEN Row(id, u) ELSE t[i]]

\* SELECT * FROM personas WHERE profesion = ?   (BINARY collation)
SelectPorProfesion(t, p) == SelectSeq(t, LAMBDA r : r.profesion = p)

\* [UserInDB(id=row[0], ..., certificado_N=row[6]) for row in rows]
UsersOf(rows) == [i \in 1..Len(rows) |-> UserInDB(rows[i].id, Datos(rows[i]))]

AllValid(rows) == \A i \in 1..Len(rows) : UserInDBValid(Datos(rows[i]))

(***************************************************************************)
(* Requests and responses.                                                 *)
(***************************************************************************)
NoBody == [none |-> TRUE]
NoUser == [none |-> TRUE]

Request(op, id, profesion, body) ==
  [op |-> op, id |-> id, profesion |-> profesion, body |-> body]

Response(status, user, users, detail) ==
  [status |-> status, user |-> user, users |-> users, detail |-> detail]

InternalServerError == Response(500, NoUser, <<>>, "Internal Server Error")

Unprocessable == Response(422, NoUser, <<>>, "validation error")

Body(u, g, p, c) ==
  [username |-> u, nacimiento |-> Nacimiento, numero |-> Numero, gmail |-> g,
   profesion |-> p, certificado_N |-> c]

Without(body, f) == [k \in (DOMAIN body) \ {f} |-> body[k]]

CuerposValidos ==
  {Body(u, g, p, c) : u \in Usernames, g \in GmailsValidos,
                      p \in Profesiones, c \in Certificados}

BaseBody == Body("ana", a_x_co, "chef", "c1")

\* the body src/peticiones.py posts: an id, no certificado_N, gmail pedro@pedro
ScriptBody ==
  [id |-> 4, username |-> "pedro", nacimiento |-> "1990-01-01",
   numero |-> "123456789", gmail |-> pedro_pedro, profesion |-> "programador"]

\* a body as add_user of src/pagina/main.py posts it: an id and five fields
PaginaBody ==
  [id |-> 1, username |-> "ana", nacimiento |-> Nacimiento, numero |-> Numero,
   gmail |-> a_x_co, profesion |-> "chef"]

CreateBodies ==
  CuerposValidos
    \cup {Without(BaseBody, f) : f \in Fields}
    \cup {Body("pedro", pedro_pedro, "chef", "c1"), Body("ana", a_x_co, "chef", None),
          ScriptBody, PaginaBody}

UpdateBodies ==
  CuerposValidos
    \cup {Without(b, "certificado_N") : b \in CuerposValidos}
    \cup {Without(BaseBody, "username"), Body("pedro", pedro_pedro, "chef", "c1")}

\* ids asked for in PUT /users/{id}: one more than any row has
Ids == 1..(MaxRows + 1)

(***************************************************************************)
(* The store functions.  Each yields the table it leaves behind, the       *)
(* exception it raises ("" when it returns) and what it returns.           *)
(***************************************************************************)
Outcome(tabla, raised, user, users) ==
  [tabla |-> tabla, raised |-> raised, user |-> user, users |-> users]

nuevo_usuario(t, user) ==
  Outcome(InsertRow(t, user), "", UserInDB(NextRowId(t), user), <<>>)

\* "users" is bound only inside the loop over rows: with no rows the return
\* statement reads an unbound local
obtener_usuarios(t) ==
  IF Len(t) = 0 THEN Outcome(t, "UnboundLocalError", NoUser, <<>>)
  ELSE IF ~AllValid(t) THEN Outcome(t, "ValidationError", NoUser, <<>>)
  ELSE Outcome(t, "", NoUser, UsersOf(t))

obtener_usuarios_por_profesion(t, profesion) ==
  LET rows == SelectPorProfesion(t, profesion)
  IN IF ~AllValid(rows) THEN Outcome(t, "ValidationError", NoUser, <<>>)
     ELSE Outcome(t, "", NoUser, UsersOf(rows))

\* the UPDATE, the rowcount test, the commit, and then the UserInDB built
\* from the UserUpdate outside the with block
editar_usuario(t, id, user) ==
  IF user.certificado_N = None /\ ~CertificadoNullable
  THEN Outcome(t, "IntegrityError", NoUser, <<>>)
  ELSE IF RowCount(t, id) = 0
  THEN Outcome(t, "HTTPException404", NoUser, <<>>)
  ELSE IF ~UserInDBValid(user)
  THEN Outcome(UpdateRows(t, id, user), "ValidationError", NoUser, <<>>)
  ELSE Outcome(UpdateRows(t, id, user), "", UserInDB(id, user), <<>>)

(***************************************************************************)
(* History, kept for the properties only: devueltos is the sequence of the *)
(* ids the successful creates returned; intactos holds the records the     *)
(* creates returned whose row no UPDATE has matched since.                 *)
(*                                                                         *)
(* The routes, one action each.  FastAPI validates the body against the    *)
(* route's model before the handler runs (422 otherwise) and answers an    *)
(* exception that is no HTTPException with 500.                            *)
(***************************************************************************)
\* GET /
obtener_todos_los_usuarios ==
  LET r == obtener_usuarios(personas)
  IN /\ req' = Request("GET /", 0, "", NoBody)
     /\ resp' = IF r.raised # "" THEN InternalServerError
                ELSE Response(200, NoUser, r.users, "")
     /\ personas' = r.tabla
     /\ UNCHANGED <<devueltos, intactos, conns, writer>>

\* GET /users/{profesion}
obtener_usuarios_por_profesion_route ==
  \E profesion \in Lookups :
    LET r == obtener_usuarios_por_profesion(personas, profesion)
    IN /\ req' = Request("GET /users/{profesion}", 0, profesion, NoBody)
       /\ resp' = IF r.raised # "" THEN InternalServerError
                  ELSE IF Len(r.users) = 0
                  THEN Response(404, NoUser, <<>>,
                                "No se encontraron usuarios con esta profesión")
                  ELSE Response(200, NoUser, r.users, "")
       /\ personas' = r.tabla
       /\ UNCHANGED <<devueltos, intactos, conns, writer>>

\* POST /users
crear_nuevo_usuario ==
  \E body \in CreateBodies :
    /\ UserCreateValid(body) => Len(personas) < MaxRows
    /\ req' = Request("POST /users", 0, "", body)
    /\ IF ~UserCreateValid(body)
       THEN /\ resp' = Unprocessable
            /\ UNCHANGED <<personas, devueltos, intactos>>
       ELSE LET r == nuevo_usuario(personas, UserCreate(body))
            IN /\ resp' = Response(200, r.user, <<>>, "")
               /\ personas' = r.tabla
               /\ devueltos' = Append(devueltos, r.user.id)
               /\ intactos' = intactos \cup {r.user}
    /\ UNCHANGED <<conns, writer>>

RespuestaEditarTodo500(r) ==
  IF r.raised = "" THEN Response(200, r.user, <<>>, "")
  ELSE Response(500, NoUser, <<>>, r.raised)

\* the try/except of editar_usuario_route: an HTTPException is raised again,
\* any other exception becomes a 500 carrying str(e)
RespuestaEditar(r) ==
  IF r.raised = "" THEN Response(200, r.user, <<>>, "")
  ELSE IF r.raised = "HTTPException404"
  THEN Response(404, NoUser, <<>>, "Usuario no encontrado")
  ELSE Response(500, NoUser, <<>>, r.raised)

\* PUT /users/{id}
editar_usuario_route ==
  \E id \in Ids, body \in UpdateBodies :
    /\ req' = Request("PUT /users/{id}", id, "", body)
    /\ IF ~UserUpdateValid(body)
       THEN /\ resp' = Unprocessable
            /\ UNCHANGED <<personas, intactos>>
       ELSE LET r == editar_usuario(personas, id, UserUpdate(body))
            IN /\ resp' = RespuestaEditar(r)
               /\ personas' = r.tabla
               /\ intactos' = IF r.raised \in {"", "ValidationError"}
                              THEN {u \in intactos : u.id # id} ELSE intactos
    /\ UNCHANGED <<devueltos, conns, writer>>

(***************************************************************************)
(* Concurrent creates: nuevo_usuario statement by statement.               *)
(***************************************************************************)
Clients == {"k1", "k2", "k3"}

\* a request's frame in nuevo_usuario: where it is, its UserCreate, the row
\* its INSERT wrote and has not committed yet, and its local user_id
IdleConn == [pc |-> "idle", user |-> NoUser, row |-> NoUser, user_id |-> 0]

InFlight == {c \in Clients : conns[c].pc \in {"connected", "inserted", "read"}}

Init ==
  /\ personas = <<>>
  /\ req = Request("none", 0, "", NoBody)
  /\ resp = Response(0, NoUser, <<>>, "")
  /\ devueltos = <<>>
  /\ intactos = {}
  /\ conns = [c \in Clients |-> IdleConn]
  /\ writer = None

Next ==
  \/ obtener_todos_los_usuarios
  \/ obtener_usuarios_por_profesion_route
  \/ crear_nuevo_usuario
  \/ editar_usuario_route

Spec == Init /\ [][Next]_vars

\* a request arrives with a valid body: get_db_connection() connects
Conectar(c) ==
  \E body \in CuerposValidos :
    /\ conns[c].pc = "idle"
    /\ Len(personas) + Cardinality(InFlight) < MaxCreates
    /\ conns' = [conns EXCEPT ![c] = [IdleConn EXCEPT !.pc = "connected",
                                                     !.user = UserCreate(body)]]
    /\ UNCHANGED <<personas, req, resp, devueltos, intactos, writer>>

\* cursor.execute("INSERT ..."): the statement opens a transaction and takes
\* the database's write lock; the row gets its id now and stays invisible to
\* the other connections until the commit
Insertar(c) ==
  /\ conns[c].pc = "connected"
  /\ writer = None
  /\ writer' = c
  /\ conns' = [conns EXCEPT ![c].pc = "inserted",
                            ![c].row = Row(NextRowId(personas), conns[c].user)]
  /\ UNCHANGED <<personas, req, resp, devueltos, intactos>>

\* the INSERT of a connection that finds the lock held past sqlite's busy
\* timeout raises OperationalError: the with block closes the connection and
\* the request is answered 500
InsertarBloqueado(c) ==
  /\ conns[c].pc = "connected"
  /\ writer # None
  /\ conns' = [conns EXCEPT ![c] = IdleConn]
  /\ UNCHANGED <<personas, req, resp, devueltos, intactos, writer>>

cursor_lastrowid_max(c) == MaxId(personas)

\* lastrowid of the connection's own cursor
cursor_lastrowid(c) == conns[c].row.id

\* user_id = cursor.lastrowid
LeerLastRowId(c) ==
  /\ conns[c].pc = "inserted"
  /\ conns' = [conns EXCEPT ![c].pc = "read", ![c].user_id = cursor_lastrowid(c)]
  /\ UNCHANGED <<personas, req, resp, devueltos, intactos, writer>>

\* conn.commit()
Commit(c) ==
  /\ conns[c].pc = "read"
  /\ personas' = Append(personas, conns[c].row)
  /\ writer' = None
  /\ conns' = [conns EXCEPT ![c].pc = "committed"]
  /\ UNCHANGED <<req, resp, devueltos, intactos>>

\* conn.close() and return UserInDB(id=user_id, **user.dict())
Devolver(c) ==
  /\ conns[c].pc = "committed"
  /\ devueltos' = Append(devueltos, conns[c].user_id)
  /\ intactos' = intactos \cup {UserInDB(conns[c].user_id, conns[c].user)}
  /\ conns' = [conns EXCEPT ![c] = IdleConn]
  /\ UNCHANGED <<personas, req, resp, writer>>

NextConc ==
  \E c \in Clients :
    \/ Conectar(c)
    \/ Insertar(c)
    \/ InsertarBloqueado(c)
    \/ LeerLastRowId(c)
    \/ Commit(c)
    \/ Devolver(c)

SpecConc == Init /\ [][NextConc]_vars

(***************************************************************************)
(* Properties of the routes (Spec).                                        *)
(***************************************************************************)
Failures == {404, 422, 500}

MatchingRows(p) == {personas[i] : i \in {k \in 1..Len(personas) : personas[k].profesion = p}}

\* C1: a create with a valid body is answered 200 with a record whose id is
\* a positive integer that no earlier create returned, and whose six other
\* fields are those of the validated input (the UserCreate of the body).
C1_CreateFreshIdEcho ==
  /\ \A i \in 1..Len(devueltos) : devueltos[i] \in Nat \ {0}
  /\ \A i, j \in 1..Len(devueltos) : i # j => devueltos[i] # devueltos[j]
  /\ (req.op = "POST /users" /\ UserCreateValid(req.body)) =>
       /\ resp.status = 200
       /\ resp.user.id = devueltos[Len(devueltos)]
       /\ Datos(resp.user) = UserCreate(req.body)

\* a second create has just returned, its body's gmail in upper case
C1_Witness ==
  /\ req.op = "POST /users"
  /\ resp.status = 200
  /\ Len(devueltos) = 2
  /\ req.body.gmail = a_X_CO

\* C2: once a create has returned a record, every later GET / answers 200
\* with exactly one record of that id, equal to the returned record when no
\* update matched the id since.
C2_ListAllHasEveryCreated ==
  (req.op = "GET /" /\ Len(devueltos) > 0) =>
    /\ resp.status = 200
    /\ \A i \in 1..Len(devueltos) :
         Cardinality({k \in 1..Len(resp.users) : resp.users[k].id = devueltos[i]}) = 1
    /\ \A u \in intactos : \E k \in 1..Len(resp.users) : resp.users[k] = u

\* C3: GET / on an empty table answers 200 with an empty list.
C3_ListAllEmptyIsSuccess ==
  (req.op = "GET /" /\ Len(personas) = 0) =>
    (resp.status = 200 /\ resp.users = <<>>)

\* C4: a PUT on an existing id whose body omits certificado_N and gives the
\* five other fields validly answers 200 with the updated record.
C4_UpdateWithoutCertificadoIs200 ==
  (/\ req.op = "PUT /users/{id}"
   /\ RowCount(personas, req.id) > 0
   /\ "certificado_N" \notin DOMAIN req.body
   /\ UserUpdateValid(req.body)) =>
    /\ resp.status = 200
    /\ resp.user.id = req.id
    /\ Datos(resp.user) = UserUpdate(req.body)

\* C5: a validated PUT on an existing id leaves the table with the same ids,
\* the row of that id holding the six field values of the input under the
\* same id, and every other row as it was.
C5_UpdateOverwritesExactlyThatRow ==
  [][(/\ req'.op = "PUT /users/{id}"
      /\ UserUpdateValid(req'.body)
      /\ RowCount(personas, req'.id) > 0) =>
       /\ Len(personas') = Len(personas)
       /\ IdsOf(personas') = IdsOf(personas)
       /\ \A i \in 1..Len(personas) :
            IF personas[i].id = req'.id
            THEN /\ personas'[i].id = req'.id
                 /\ Datos(personas'[i]) = UserUpdate(req'.body)
            ELSE personas'[i] = personas[i]]_vars

\* an update has rewritten one of two rows and the other one differs from it
C5_Witness ==
  /\ req.op = "PUT /users/{id}"
  /\ resp.status = 200
  /\ Len(personas) = 2
  /\ \E i, j \in 1..2 :
       /\ personas[i].id = req.id
       /\ Datos(personas[i]) = UserUpdate(req.body)
       /\ personas[j].id # req.id
       /\ Datos(personas[j]) # Datos(personas[i])

\* C6: a validated PUT whose id matches no row answers 404 and leaves the
\* table as it was.
C6_UpdateAbsentIdIs404 ==
  [][(/\ req'.op = "PUT /users/{id}"
      /\ UserUpdateValid(req'.body)
      /\ RowCount(personas, req'.id) = 0) =>
       (resp'.status = 404 /\ personas' = personas)]_vars

\* a PUT on an id no row has was answered 404 while the table holds rows
C6_Witness ==
  /\ req.op = "PUT /users/{id}"
  /\ resp.status = 404
  /\ Len(personas) > 0
  /\ req.id \notin IdsOf(personas)

\* C7: GET /users/{P} answers 200 with exactly the rows whose profesion is P
\* when there is one, and 404 when there is none.
C7_ByProfesionExactMatches ==
  (req.op = "GET /users/{profesion}") =>
    IF MatchingRows(req.profesion) # {}
    THEN /\ resp.status = 200
         /\ {resp.users[k] : k \in 1..Len(resp.users)} = MatchingRows(req.profesion)
         /\ Len(resp.users) = Cardinality(MatchingRows(req.profesion))
    ELSE resp.status = 404

\* C8: a POST whose body lacks one of the six fields, or whose gmail is no
\* valid e-mail address, answers 422 and leaves the table as it was.
C8_InvalidCreateIs422 ==
  [][(/\ req'.op = "POST /users"
      /\ \/ \E f \in Fields : f \notin DOMAIN req'.body
         \/ ~EmailStrValid(req'.body.gmail)) =>
       (resp'.status = 422 /\ personas' = personas)]_vars

\* the body of the presentation client, which lacks certificado_N, was
\* refused while the table holds a row
C8_Witness ==
  /\ req.op = "POST /users"
  /\ req.body = PaginaBody
  /\ resp.status = 422
  /\ Len(personas) > 0

\* C9: a request answered with a failure leaves the table as it was.
C9_FailureLeavesTable ==
  [][resp'.status \in Failures => personas' = personas]_vars

(***************************************************************************)
(* Properties of the concurrent creates (SpecConc).                        *)
(***************************************************************************)
Committed == {c \in Clients : conns[c].pc = "committed"}

HoldsRow(id, u) ==
  Cardinality({i \in 1..Len(personas) :
                 personas[i].id = id /\ Datos(personas[i]) = Datos(u)}) = 1

\* C10: the ids the creates return, and are about to return, are pairwise
\* distinct, and each of them is the id of the row holding that create's
\* own input.
C10_ConcurrentCreatesDistinctIds ==
  /\ \A i, j \in 1..Len(devueltos) : i # j => devueltos[i] # devueltos[j]
  /\ \A c \in Committed :
       /\ \A i \in 1..Len(devueltos) : devueltos[i] # conns[c].user_id
       /\ \A d \in Committed \ {c} : conns[d].user_id # conns[c].user_id
       /\ HoldsRow(conns[c].user_id, conns[c].user)
  /\ \A u \in intactos : HoldsRow(u.id, u)

\* a create has committed and not returned yet while another one, connected
\* before that commit, has inserted its row, and a third one has returned
C10_Witness ==
  /\ Len(devueltos) > 0
  /\ \E c, d \in Clients :
       /\ conns[c].pc = "committed"
       /\ conns[d].pc = "read"
       /\ conns[d].user # conns[c].user

====
